---- MODULE Spec2Model ----
(***************************************************************************)
(* A model of parsercs.py: rlogparse, the line-by-line parser of rlog      *)
(* output, and rcscluster, the greedy clustering of revisions into         *)
(* commits.  Python strings are TLA+ strings, handled character by         *)
(* character; Python's None is the value None below.                       *)
(***************************************************************************)
EXTENDS Integers, Sequences, FiniteSets, TLC

VARIABLES
    \* ---- rlogparse ----
    ppc,        \* where rlogparse is: "idle", "reading", "returned", "error"
    newfile, vrfile, vwfile, vhead, vdesc, inblock, vrevs, vrevnum, nr, nf,
    shared,     \* the dict vrevs names is the dict the last record of rcsmeta holds
    raised,     \* the exception that ended rlogparse, or None
    rcsmeta,    \* the list of per-file records: rlogparse's result, rcscluster's input
    \* ---- rcscluster ----
    cpc,        \* where rcscluster is: "idle", "flatten", "loop", "done", "error"
    smalltimesep, bigtimesep,
    revsbydate, mintime,
    pending,    \* what is left of sorted(revsbydate) for the for loop
    rcscommits, prevtime, prevauth, prevdate, prevdesc, prevrev, commit, files, descs,
    \* ---- main ----
    mpc,        \* where main is: "idle", "parsing", "clustering", "exited", "crashed"
    stdout,     \* the commits main has printed
    \* ---- rlog, and the terminal ----
    returncode, \* the exit status of rlog, None while it runs
    tty,        \* file descriptor 0 is a terminal
    stream,     \* the lines rlog has printed that are still to be read
    ateof,      \* the last line read had no line terminator: no line follows it
    \* ---- history variables (read by no action) ----
    truth,      \* the history rlog printed as stream
    nend,       \* the number of terminator lines read
    opened,     \* a line that opens a capture has been read since the last terminator line
    reclines,   \* the lines read since the last terminator line, and that line once read
    revsince,   \* a revision-number line has been read outside a capture since the last
                \* terminator line and since the last revision was created
    target,     \* what the line that opened the capture in progress announced: "description",
                \* "revision", or "none" outside a capture
    walked      \* the events the loop has processed, each with the serial number of its commit

locals == <<newfile, vrfile, vwfile, vhead, vdesc, inblock, vrevs, vrevnum, nf, shared>>
pvars == <<ppc, locals, nr, raised, stream, ateof, truth, nend, opened, reclines, revsince, target>>
cvars == <<cpc, smalltimesep, bigtimesep, revsbydate, mintime, pending, rcscommits,
           prevtime, prevauth, prevdate, prevdesc, prevrev, commit, files, descs, walked>>
mvars == <<mpc, stdout, returncode, tty>>
vars == <<pvars, rcsmeta, cvars, mvars>>

-----------------------------------------------------------------------------
(* Python values *)

\* None, and a local variable that has not been assigned yet.
None == "<None>"
Unbound == "<unbound>"

\* `if x:` on a string or None.
Truthy(x) == x /= None /\ x /= ""

-----------------------------------------------------------------------------
(* Python str methods, on TLA+ strings *)

Min(a, b) == IF a < b THEN a ELSE b

\* s[i] as a one-character string, i counted from 0.
CharAt(s, i) == SubSeq(s, i + 1, i + 1)

\* s[i:] and s[:i] for i >= 0.
SliceFrom(s, i) == SubSeq(s, i + 1, Len(s))
SliceTo(s, i) == SubSeq(s, 1, Min(i, Len(s)))

startswith(s, k) == Len(s) >= Len(k) /\ SubSeq(s, 1, Len(k)) = k

\* s.find(c) for a one-character c: the first index (from 0), or -1.
RECURSIVE FindFrom(_, _, _)
FindFrom(s, c, i) ==
    IF i >= Len(s) THEN -1
    ELSE IF CharAt(s, i) = c THEN i
    ELSE FindFrom(s, c, i + 1)
find(s, c) == FindFrom(s, c, 0)

\* str.isspace() of one character (the ASCII ones).
IsSpace(c) == c \in {" ", "\t", "\n", "\r"}

RECURSIVE lstrip(_)
lstrip(s) == IF s /= "" /\ IsSpace(Head(s)) THEN lstrip(Tail(s)) ELSE s
RECURSIVE rstrip(_)
rstrip(s) ==
    IF s /= "" /\ IsSpace(CharAt(s, Len(s) - 1)) THEN rstrip(SliceTo(s, Len(s) - 1)) ELSE s
strip(s) == rstrip(lstrip(s))

\* s.rstrip('\n')
RECURSIVE rstripnl(_)
rstripnl(s) ==
    IF s /= "" /\ CharAt(s, Len(s) - 1) = "\n" THEN rstripnl(SliceTo(s, Len(s) - 1)) ELSE s

UpperCase == "ABCDEFGHIJKLMNOPQRSTUVWXYZ"
LowerCase == "abcdefghijklmnopqrstuvwxyz"
ToLower == [c \in {CharAt(UpperCase, i) : i \in 0..25} |-> CharAt(LowerCase, find(UpperCase, c))]
LowerChar(c) == IF c \in DOMAIN ToLower THEN ToLower[c] ELSE c
RECURSIVE lower(_)
lower(s) == IF s = "" THEN "" ELSE LowerChar(Head(s)) \o lower(Tail(s))

\* The characters of the model in code-point order: str < str compares by code point.
CodePoints == "\t\n\r ,-./0123456789:;<=>ABCDEFGHIJKLMNOPQRSTUVWXYZ_abcdefghijklmnopqrstuvwxyz"
OrdOf == [c \in {CharAt(CodePoints, i) : i \in 0..(Len(CodePoints) - 1)} |-> find(CodePoints, c)]
Ord(c) == OrdOf[c]

RECURSIVE StrLt(_, _)
StrLt(a, b) ==
    IF b = "" THEN FALSE
    ELSE IF a = "" THEN TRUE
    ELSE IF Head(a) = Head(b) THEN StrLt(Tail(a), Tail(b))
    ELSE Ord(Head(a)) < Ord(Head(b))

-----------------------------------------------------------------------------
(* datetime.strptime(sdate, '%Y/%m/%d %H:%M:%S') and datetime.timestamp() *)

Digits == "0123456789"
IsDigit(c) == Len(c) = 1 /\ find(Digits, c) >= 0
RECURSIVE IsDigits(_)
IsDigits(s) == s = "" \/ (IsDigit(Head(s)) /\ IsDigits(Tail(s)))
RECURSIVE NumFrom(_, _)
NumFrom(s, acc) == IF s = "" THEN acc ELSE NumFrom(Tail(s), 10 * acc + find(Digits, Head(s)))
Num(s) == NumFrom(s, 0)

\* A field of one or two digits (the directives %m %d %H %M %S).
IsField(s) == Len(s) \in {1, 2} /\ IsDigits(s)

IsLeap(y) == (y % 4 = 0 /\ y % 100 /= 0) \/ y % 400 = 0
DaysInMonth(y, m) ==
    IF m = 2 THEN (IF IsLeap(y) THEN 29 ELSE 28)
    ELSE IF m \in {4, 6, 9, 11} THEN 30 ELSE 31

\* Days from 1970/01/01 to y/m/d (proleptic Gregorian calendar).
DaysFromCivil(y, m, d) ==
    LET yy == IF m <= 2 THEN y - 1 ELSE y
        era == yy \div 400
        yoe == yy - era * 400
        mp == (m + 9) % 12
        doy == (153 * mp + 2) \div 5 + d - 1
        doe == yoe * 365 + yoe \div 4 - yoe \div 100 + doy
    IN  era * 146097 + doe - 719468

\* The text before and after the first occurrence of the one-character c.
Before(s, c) == SliceTo(s, find(s, c))
After(s, c) == SliceFrom(s, find(s, c) + 1)

\* strptime: [ok |-> FALSE] is ValueError; otherwise ts is timestamp() of the
\* parsed datetime, the local time zone being UTC.
strptime(s) ==
    LET bad == [ok |-> FALSE, ts |-> 0]
    IN
    IF find(s, "/") < 0 THEN bad ELSE
    LET Y == Before(s, "/")
        s1 == After(s, "/")
    IN
    IF find(s1, "/") < 0 THEN bad ELSE
    LET m == Before(s1, "/")
        s2 == After(s1, "/")
        sp == IF find(s2, " ") < 0 THEN Len(s2) ELSE find(s2, " ")
        d == SliceTo(s2, sp)
        s3 == lstrip(SliceFrom(s2, sp))
    IN
    IF sp >= Len(s2) \/ find(s3, ":") < 0 THEN bad ELSE
    LET H == Before(s3, ":")
        s4 == After(s3, ":")
    IN
    IF find(s4, ":") < 0 THEN bad ELSE
    LET M == Before(s4, ":")
        S == After(s4, ":")
    IN
    IF ~(Len(Y) = 4 /\ IsDigits(Y) /\ IsField(m) /\ IsField(d)
           /\ IsField(H) /\ IsField(M) /\ IsField(S)) THEN bad
    ELSE IF ~(Num(Y) >= 1 /\ Num(m) \in 1..12 /\ Num(d) >= 1
           /\ Num(d) <= DaysInMonth(Num(Y), Num(m))
           /\ Num(H) <= 23 /\ Num(M) <= 59 /\ Num(S) <= 59) THEN bad
    ELSE [ok |-> TRUE,
          ts |-> DaysFromCivil(Num(Y), Num(m), Num(d)) * 86400
                   + Num(H) * 3600 + Num(M) * 60 + Num(S)]

-----------------------------------------------------------------------------
(* The records rlogparse builds *)

\* d = {frfile:vrfile, fwfile:vwfile, fhead:vhead, fdesc:vdesc, frevs:vrevs}
FileLog(r, w, h, d, revs) == [rcs |-> r, file |-> w, head |-> h, desc |-> d, revs |-> revs]

\* vrevs is a dict, which keeps insertion order: a sequence of entries with
\* distinct keys, entry e standing for vrevs[e.key] =
\* {fdesc:e.desc, fauth:e.author, fdate:e.date, fdt:e.dt}; dt is held as its timestamp().
Revision(key, d, auth, date, dt) ==
    [key |-> key, desc |-> d, author |-> auth, date |-> date, dt |-> dt]

-----------------------------------------------------------------------------
(* rlogparse *)

krfile == "RCS file:"
kwfile == "Working file:"
khead == "head:"
kdesc == "description:"
krev == "revision"
krevdate == "date:"
kauth == "author:"
kblockend == "----------------------------"
kend == "============================================================================="
fdesc == "desc"

\* The local variables of the loop, as one record.
Locals ==
    [newfile |-> newfile, vrfile |-> vrfile, vwfile |-> vwfile, vhead |-> vhead,
     vdesc |-> vdesc, inblock |-> inblock, vrevs |-> vrevs, vrevnum |-> vrevnum,
     rcsmeta |-> rcsmeta, nf |-> nf, shared |-> shared, raised |-> None]

\* A store into the dict vrevs names is a store into the record of rcsmeta
\* that holds the same dict: line 56 puts the dict itself in the record.
StoredInPlace(st) ==
    IF st.raised = None /\ st.shared
    THEN [st EXCEPT !.rcsmeta[Len(st.rcsmeta)].revs = st.vrevs]
    ELSE st

\* Lines 47-50 with the dict emptied in place (vrevs.clear()) instead of the
\* name bound to a new dict.
ClearIfNewFile_clearsinplace(st) ==
    IF st.newfile = TRUE
    THEN StoredInPlace([st EXCEPT !.vrfile = None, !.vwfile = None, !.vhead = None,
                                  !.vdesc = None, !.inblock = None, !.newfile = FALSE,
                                  !.vrevs = <<>>])
    ELSE st

\* Lines 47-50: the first line after a terminator clears the record in
\* progress; vrevs is bound to a new dict, which no record holds.
ClearIfNewFile(st) ==
    IF st.newfile = TRUE
    THEN [st EXCEPT !.vrfile = None, !.vwfile = None, !.vhead = None, !.vdesc = None,
                    !.inblock = None, !.newfile = FALSE, !.vrevs = <<>>, !.shared = FALSE]
    ELSE st

\* The if/elif chain of lines 54-88 with the capture tested before the terminator.
Classify_capturefirst(s, inb) ==
    IF s = kblockend /\ inb /= None THEN "blockend"
    ELSE IF inb /= None THEN "capture"
    ELSE IF s = kend THEN "end"
    ELSE IF startswith(s, krfile) THEN "rfile"
    ELSE IF startswith(s, kwfile) THEN "wfile"
    ELSE IF startswith(s, khead) THEN "head"
    ELSE IF startswith(s, kdesc) THEN "desc"
    ELSE IF startswith(s, krev) THEN "rev"
    ELSE IF startswith(s, krevdate) THEN "date"
    ELSE "other"

\* The if/elif chain of lines 54-88 with the capture tested after the keywords.
Classify_keywordsfirst(s, inb) ==
    IF s = kend THEN "end"
    ELSE IF s = kblockend /\ inb /= None THEN "blockend"
    ELSE IF startswith(s, krfile) THEN "rfile"
    ELSE IF startswith(s, kwfile) THEN "wfile"
    ELSE IF startswith(s, khead) THEN "head"
    ELSE IF startswith(s, kdesc) THEN "desc"
    ELSE IF startswith(s, krev) THEN "rev"
    ELSE IF startswith(s, krevdate) THEN "date"
    ELSE IF inb /= None THEN "capture"
    ELSE "other"

\* The if/elif chain of lines 54-88: the branch taken for line s when inblock is inb.
Classify(s, inb) ==
    IF s = kend THEN "end"
    ELSE IF s = kblockend /\ inb /= None THEN "blockend"
    ELSE IF inb /= None THEN "capture"
    ELSE IF startswith(s, krfile) THEN "rfile"
    ELSE IF startswith(s, kwfile) THEN "wfile"
    ELSE IF startswith(s, khead) THEN "head"
    ELSE IF startswith(s, kdesc) THEN "desc"
    ELSE IF startswith(s, krev) THEN "rev"
    ELSE IF startswith(s, krevdate) THEN "date"
    ELSE "other"

\* The dict vrevs: membership, and `vrevs[key][fdesc] += text`.
HasKey(revs, key) == \E i \in DOMAIN revs : revs[i].key = key
AddToDesc(revs, key, text) ==
    [i \in DOMAIN revs |->
        IF revs[i].key = key THEN [revs[i] EXCEPT !.desc = @ \o text] ELSE revs[i]]

\* Lines 66 and 68 with the line stripped of its surrounding whitespace.
Captured_stripped(text, s) == text \o strip(s) \o "\n"

\* Lines 66 and 68: what a captured field becomes with line s.
Captured(text, s) == text \o s \o "\n"

\* Lines 83-86: the revision number of a revision line.
RevNum(s) ==
    LET v == strip(SliceFrom(s, Len(krev) + 1))
        i == find(v, "\t")
    IN  IF i >= 0 THEN SliceTo(v, i) ELSE v

\* Lines 89-99 without the assertion of line 95.
DateAuthor_nolabelcheck(s) ==
    LET sdate0 == strip(SliceFrom(s, Len(krevdate) + 1))
        i == find(sdate0, ";")
        sauth0 == strip(SliceFrom(sdate0, i + 1))
        sdate == SliceTo(sdate0, i)
        dt == strptime(sdate)
        sauth1 == strip(SliceFrom(sauth0, Len(kauth) + 1))
        j == find(sauth1, ";")
        exc(e) == [raised |-> e, sdate |-> None, dt |-> 0, sauth |-> None]
    IN  IF i < 0 THEN exc("AssertionError")
        ELSE IF ~dt.ok THEN exc("ValueError")
        ELSE IF j < 0 THEN exc("AssertionError")
        ELSE [raised |-> None, sdate |-> sdate, dt |-> dt.ts, sauth |-> SliceTo(sauth1, j)]

\* Lines 89-99: the date and author of a metadata line, or the exception raised.
DateAuthor(s) ==
    LET sdate0 == strip(SliceFrom(s, Len(krevdate) + 1))
        i == find(sdate0, ";")
        sauth0 == strip(SliceFrom(sdate0, i + 1))
        sdate == SliceTo(sdate0, i)
        dt == strptime(sdate)
        sauth1 == strip(SliceFrom(sauth0, Len(kauth) + 1))
        j == find(sauth1, ";")
        exc(e) == [raised |-> e, sdate |-> None, dt |-> 0, sauth |-> None]
    IN  IF i < 0 THEN exc("AssertionError")
        ELSE IF ~dt.ok THEN exc("ValueError")
        ELSE IF ~startswith(sauth0, kauth) THEN exc("AssertionError")
        ELSE IF j < 0 THEN exc("AssertionError")
        ELSE [raised |-> None, sdate |-> sdate, dt |-> dt.ts, sauth |-> SliceTo(sauth1, j)]

\* Lines 88-103 without the assertion of line 101.
DateLine_nodupcheck(st, s) ==
    LET da == DateAuthor(s)
    IN  IF da.raised /= None THEN [st EXCEPT !.raised = da.raised]
        ELSE IF st.vrevnum = Unbound THEN [st EXCEPT !.raised = "UnboundLocalError"]
        ELSE [st EXCEPT !.inblock = st.vrevnum,
                        !.vrevnum = None,
                        !.vrevs = Append(@, Revision(st.vrevnum, "", da.sauth, da.sdate, da.dt))]

\* Lines 88-103: a metadata line creates the revision of the pending number
\* and opens the capture of its description.
DateLine(st, s) ==
    LET da == DateAuthor(s)
    IN  IF da.raised /= None THEN [st EXCEPT !.raised = da.raised]
        ELSE IF st.vrevnum = Unbound THEN [st EXCEPT !.raised = "UnboundLocalError"]
        ELSE IF HasKey(st.vrevs, st.vrevnum) THEN [st EXCEPT !.raised = "AssertionError"]
        ELSE [st EXCEPT !.inblock = st.vrevnum,
                        !.vrevnum = None,
                        !.vrevs = Append(@, Revision(st.vrevnum, "", da.sauth, da.sdate, da.dt))]

\* Lines 54-103: the branch taken for the line s, from the locals st.
Branch(st, branch, s) ==
    CASE branch = "end" ->
           [st EXCEPT !.rcsmeta = Append(@, FileLog(st.vrfile, st.vwfile, st.vhead,
                                                    st.vdesc, st.vrevs)),
                      !.newfile = TRUE, !.shared = TRUE]
      [] branch = "blockend" -> [st EXCEPT !.inblock = None]
      [] branch = "capture" ->
           IF st.inblock = fdesc
           THEN (IF st.vdesc = None THEN [st EXCEPT !.raised = "TypeError"]
                 ELSE [st EXCEPT !.vdesc = Captured(@, s)])
           ELSE StoredInPlace([st EXCEPT !.vrevs = AddToDesc(@, st.inblock,
                                                            Captured("", s))])
      [] branch = "rfile" ->
           [st EXCEPT !.vrfile = strip(SliceFrom(s, Len(krfile) + 1)), !.nf = @ + 1]
      [] branch = "wfile" -> [st EXCEPT !.vwfile = strip(SliceFrom(s, Len(kwfile) + 1))]
      [] branch = "head" -> [st EXCEPT !.vhead = strip(SliceFrom(s, Len(khead) + 1))]
      [] branch = "desc" -> [st EXCEPT !.inblock = fdesc, !.vdesc = ""]
      [] branch = "rev" -> [st EXCEPT !.vrevnum = RevNum(s)]
      [] branch = "date" -> StoredInPlace(DateLine(st, s))
      [] OTHER -> st

\* Lines 54-103: the if/elif chain for the line s, from the locals st.
Chain(st, s) == Branch(st, Classify(s, st.inblock), s)

\* Lines 47-103: the body of the loop for the line s, from the locals st0.
LoopStep(st0, s) == Chain(ClearIfNewFile(st0), s)

\* A line of the pipe is a terminator line: kend and the line terminator, if any.
IsTerminatorLine(line) == line = kend \o "\n" \/ line = kend
\* A line of the pipe that starts as the lines that open a capture do.
IsOpenerLine(line) == startswith(line, kdesc) \/ startswith(line, krevdate)
EndsWithNewline(line) == line /= "" /\ CharAt(line, Len(line) - 1) = "\n"

\* One iteration of the loop of lines 46-103, on the line read: before are
\* the locals after lines 47-50, st the locals after the body.
Iteration(line, before, st) ==
    /\ nr' = nr + 1
    /\ IF st.raised /= None
       THEN /\ ppc' = "error"
            /\ raised' = st.raised
            /\ UNCHANGED <<locals, rcsmeta>>
       ELSE /\ ppc' = "reading"
            /\ raised' = None
            /\ newfile' = st.newfile
            /\ vrfile' = st.vrfile
            /\ vwfile' = st.vwfile
            /\ vhead' = st.vhead
            /\ vdesc' = st.vdesc
            /\ inblock' = st.inblock
            /\ vrevs' = st.vrevs
            /\ vrevnum' = st.vrevnum
            /\ shared' = st.shared
            /\ nf' = st.nf
            /\ rcsmeta' = st.rcsmeta
    /\ ateof' = ~EndsWithNewline(line)
    /\ nend' = IF IsTerminatorLine(line) THEN nend + 1 ELSE nend
    /\ opened' = IF IsTerminatorLine(line) THEN FALSE ELSE (opened \/ IsOpenerLine(line))
    /\ reclines' = IF reclines /= <<>> /\ IsTerminatorLine(reclines[Len(reclines)])
                   THEN <<line>>
                   ELSE Append(reclines, line)
    /\ revsince' = IF IsTerminatorLine(line) THEN FALSE
                   ELSE IF st.raised /= None THEN revsince
                   ELSE IF Len(st.vrevs) > Len(before.vrevs) THEN FALSE
                   ELSE IF before.inblock = None /\ startswith(line, krev) THEN TRUE
                   ELSE revsince
    /\ target' = IF IsTerminatorLine(line) THEN "none"
                 ELSE IF st.raised /= None THEN target
                 ELSE IF before.inblock = None /\ st.inblock /= None
                      THEN IF Len(st.vrevs) > Len(before.vrevs)
                           THEN "revision" ELSE "description"
                 ELSE IF before.inblock /= None /\ st.inblock = None THEN "none"
                 ELSE target

\* One iteration of `for line in p.stdout` (lines 46-103) on the line read.
ReadLine(line) ==
    /\ ppc = "reading"
    /\ ~ateof
    /\ Iteration(line, ClearIfNewFile(Locals), LoopStep(Locals, rstripnl(line)))
    /\ UNCHANGED <<truth, cvars, mvars>>

\* The exit statuses of rlog: success and failure.
ExitStatuses == {0, 1}

\* Lines 43 and 104-105: the pipe is at its end, the `with` statement waits
\* for rlog, whose exit status nothing reads, and rlogparse returns rcsmeta.
ParseReturn ==
    /\ ppc = "reading"
    /\ ppc' = "returned"
    /\ returncode' \in ExitStatuses
    /\ UNCHANGED <<locals, nr, raised, stream, ateof, truth, nend, opened, reclines, revsince, target, rcsmeta, cvars,
                   mpc, stdout, tty>>

\* rlogparse at the first line: lines 42-45.
ParseEntry ==
    /\ ppc = "reading"
    /\ newfile = TRUE
    /\ nr = 0 /\ nf = 0
    /\ rcsmeta = <<>>
    /\ vrfile = Unbound /\ vwfile = Unbound /\ vhead = Unbound /\ vdesc = Unbound
    /\ inblock = Unbound /\ vrevs = Unbound /\ vrevnum = Unbound
    /\ shared = FALSE
    /\ raised = None
    /\ ateof = FALSE
    /\ nend = 0
    /\ opened = FALSE
    /\ reclines = <<>>
    /\ revsince = FALSE
    /\ target = "none"

-----------------------------------------------------------------------------
(* rcscluster *)

descskip == {"initial revision"}

\* sys.float_info.max, as the largest number of the model.
FloatMax == 2147483647

\* The tuple appended to revsbydate.
Event(f, rinfo) ==
    <<rinfo.dt, rinfo.author, rinfo.date, f.rcs, rinfo.key, f.file, rinfo.desc>>
revtimeOf(e) == e[1]
revauthOf(e) == e[2]
revdateOf(e) == e[3]
vrfileOf(e) == e[4]
revOf(e) == e[5]
vwfileOf(e) == e[6]
revdescOf(e) == e[7]

\* The nested loop of lines 121-129 over a list of records.
RECURSIVE FlattenRevs(_, _)
FlattenRevs(f, revs) ==
    IF revs = <<>> THEN <<>>
    ELSE <<Event(f, Head(revs))>> \o FlattenRevs(f, Tail(revs))
RECURSIVE Flatten(_)
Flatten(meta) ==
    IF meta = <<>> THEN <<>>
    ELSE FlattenRevs(Head(meta), Head(meta).revs) \o Flatten(Tail(meta))

RECURSIVE MinTime(_, _)
MinTime(evs, acc) ==
    IF evs = <<>> THEN acc ELSE MinTime(Tail(evs), Min(acc, revtimeOf(Head(evs))))

\* Python's tuple comparison: the first position where the tuples differ decides.
RECURSIVE FirstDiff(_, _, _)
FirstDiff(a, b, i) ==
    IF i > Len(a) THEN 0 ELSE IF a[i] /= b[i] THEN i ELSE FirstDiff(a, b, i + 1)
TupleLt(a, b) ==
    LET i == FirstDiff(a, b, 1)
    IN  IF i = 0 THEN FALSE
        ELSE IF i = 1 THEN a[1] < b[1]
        ELSE StrLt(a[i], b[i])

\* str < None raises TypeError: a comparison sorted() cannot make.
Incomparable(a, b) ==
    LET i == FirstDiff(a, b, 1)
    IN  i > 1 /\ (a[i] = None \/ b[i] = None)
SortRaises(evs) ==
    \E i, j \in 1..Len(evs) : i < j /\ Incomparable(evs[i], evs[j])

\* sorted(revsbydate): a stable sort on the whole tuple.
RECURSIVE Insert(_, _)
Insert(e, evs) ==
    IF evs = <<>> THEN <<e>>
    ELSE IF TupleLt(e, Head(evs)) THEN <<e>> \o evs
    ELSE <<Head(evs)>> \o Insert(e, Tail(evs))
RECURSIVE InsertionSort(_)
InsertionSort(evs) ==
    IF evs = <<>> THEN <<>>
    ELSE Insert(evs[Len(evs)], InsertionSort(SubSeq(evs, 1, Len(evs) - 1)))
\* A sort on the timestamp alone that keeps the input order of equal timestamps.
RECURSIVE InsertByTime(_, _)
InsertByTime(e, evs) ==
    IF evs = <<>> THEN <<e>>
    ELSE IF revtimeOf(Head(evs)) <= revtimeOf(e) THEN <<Head(evs)>> \o InsertByTime(e, Tail(evs))
    ELSE <<e>> \o evs
RECURSIVE SortByTime(_)
SortByTime(evs) ==
    IF evs = <<>> THEN <<>>
    ELSE InsertByTime(evs[Len(evs)], SortByTime(SubSeq(evs, 1, Len(evs) - 1)))
sorted_bytime(evs) == SortByTime(evs)

sorted(evs) == InsertionSort(evs)

\* Variants of the condition below, each without one of its clauses (the first
\* event still opens a commit).
NewCommit_nofile(revauth, rfile, dt, revdesc, rev) ==
    \/ revauth /= prevauth
    \/ dt > bigtimesep
    \/ (dt > smalltimesep /\ revdesc /= prevdesc /\ rev /= prevrev)
NewCommit_noauthor(revauth, rfile, dt, revdesc, rev) ==
    \/ prevauth = None
    \/ rfile \in files
    \/ dt > bigtimesep
    \/ (dt > smalltimesep /\ revdesc /= prevdesc /\ rev /= prevrev)
NewCommit_nobiggap(revauth, rfile, dt, revdesc, rev) ==
    \/ revauth /= prevauth
    \/ rfile \in files
    \/ (dt > smalltimesep /\ revdesc /= prevdesc /\ rev /= prevrev)
NewCommit_nosmallgap(revauth, rfile, dt, revdesc, rev) ==
    \/ revauth /= prevauth
    \/ rfile \in files
    \/ dt > bigtimesep
    \/ (revdesc /= prevdesc /\ rev /= prevrev)

\* Lines 138-141 with a small gap splitting on either difference.
NewCommit_eitherdiffers(revauth, rfile, dt, revdesc, rev) ==
    \/ revauth /= prevauth
    \/ rfile \in files
    \/ dt > bigtimesep
    \/ (dt > smalltimesep /\ (revdesc /= prevdesc \/ rev /= prevrev))

\* The condition of lines 138-141 that starts a new commit.
NewCommit(revauth, rfile, dt, revdesc, rev) ==
    \/ revauth /= prevauth
    \/ rfile \in files
    \/ dt > bigtimesep
    \/ (dt > smalltimesep /\ revdesc /= prevdesc /\ rev /= prevrev)

\* Line 154 without lower().
canondesc_nolower(revdesc) == strip(revdesc)

\* Line 154.
canondesc(revdesc) == lower(strip(revdesc))

\* The condition of line 155, d being the set of descriptions seen in the commit.
AdmitMessage(revdesc, d) ==
    canondesc(revdesc) \notin descskip /\ canondesc(revdesc) \notin d

\* The commit tuple (author, date, [messages, members]).
CommitTuple(auth, date, c) == <<auth, date, c>>
authorOf(c) == c[1]
dateOf(c) == c[2]
messagesOf(c) == c[3][1]
membersOf(c) == c[3][2]

\* Lines 119-135: the flat list, its minimum, the loop's variables and the
\* sorted copy the loop walks.
FlattenAndSort ==
    /\ cpc = "flatten"
    /\ revsbydate' = Flatten(rcsmeta)
    /\ mintime' = MinTime(revsbydate', FloatMax)
    /\ rcscommits' = <<>>
    /\ prevtime' = mintime'
    /\ prevauth' = None /\ prevdate' = None /\ prevdesc' = None /\ prevrev' = None
    /\ commit' = None
    /\ files' = {}
    /\ IF SortRaises(revsbydate')
       THEN cpc' = "error" /\ pending' = <<>>
       ELSE cpc' = "loop" /\ pending' = sorted(revsbydate')
    /\ UNCHANGED <<pvars, rcsmeta, mvars, smalltimesep, bigtimesep, descs, walked>>

\* One iteration of the for loop of lines 135-158.
LoopBody ==
    /\ cpc = "loop"
    /\ pending /= <<>>
    /\ LET e == Head(pending)
           revtime == revtimeOf(e)
           revauth == revauthOf(e)
           revdate == revdateOf(e)
           vrfile_ == vrfileOf(e)
           rev == revOf(e)
           vwfile_ == vwfileOf(e)
           revdesc == revdescOf(e)
           dt == revtime - prevtime
           new == NewCommit(revauth, vrfile_, dt, revdesc, rev)
           files1 == IF new THEN {} ELSE files
           descs1 == IF new THEN {} ELSE descs
           commit1 == IF new THEN <<<<>>, <<>>>> ELSE commit
           admit == AdmitMessage(revdesc, descs1)
           serial == IF walked = <<>> THEN 0 ELSE walked[Len(walked)].n
       IN
       /\ rcscommits' = IF new /\ Truthy(prevauth)
                        THEN Append(rcscommits, CommitTuple(prevauth, prevdate, commit))
                        ELSE rcscommits
       /\ prevauth' = IF new THEN revauth ELSE prevauth
       /\ prevdate' = IF new THEN revdate ELSE prevdate
       /\ prevtime' = revtime
       /\ prevdesc' = revdesc
       /\ prevrev' = rev
       /\ files' = files1 \cup {vrfile_}
       /\ walked' = Append(walked, [ev |-> e, n |-> IF new THEN serial + 1 ELSE serial])
       /\ IF admit /\ vwfile_ = None
          THEN \* None + ": " raises TypeError
               /\ cpc' = "error"
               /\ UNCHANGED <<commit, descs, pending>>
          ELSE /\ commit' =
                    <<IF admit THEN Append(commit1[1], vwfile_ \o ": " \o revdesc)
                               ELSE commit1[1],
                      Append(commit1[2], <<revdate, vrfile_, rev, vwfile_>>)>>
               /\ descs' = IF admit THEN descs1 \cup {canondesc(revdesc)} ELSE descs1
               /\ pending' = Tail(pending)
               /\ cpc' = "loop"
    /\ UNCHANGED <<pvars, rcsmeta, mvars, smalltimesep, bigtimesep, revsbydate, mintime>>

\* Lines 159-161, after the loop.
ClusterReturn ==
    /\ cpc = "loop"
    /\ pending = <<>>
    /\ rcscommits' = IF Truthy(prevauth)
                     THEN Append(rcscommits, CommitTuple(prevauth, prevdate, commit))
                     ELSE rcscommits
    /\ cpc' = "done"
    /\ UNCHANGED <<pvars, rcsmeta, mvars, smalltimesep, bigtimesep, revsbydate, mintime, pending,
                   prevtime, prevauth, prevdate, prevdesc, prevrev, commit, files, descs,
                   walked>>

NextCluster == FlattenAndSort \/ LoopBody \/ ClusterReturn

-----------------------------------------------------------------------------
(* The inputs of rcscluster *)

\* main is not part of the run.
MainIdle ==
    /\ mpc = "idle"
    /\ stdout = <<>>
    /\ returncode = None
    /\ tty = TRUE

\* rlogparse is not part of the run.
ParserIdle ==
    /\ ppc = "idle"
    /\ newfile = Unbound /\ vrfile = Unbound /\ vwfile = Unbound /\ vhead = Unbound
    /\ vdesc = Unbound /\ inblock = Unbound /\ vrevs = Unbound /\ vrevnum = Unbound
    /\ shared = FALSE
    /\ nr = 0 /\ nf = 0
    /\ raised = None
    /\ stream = <<>> /\ ateof = FALSE /\ truth = <<>> /\ nend = 0 /\ opened = FALSE
    /\ reclines = <<>>
    /\ revsince = FALSE
    /\ target = "none"

\* rcscluster at its call: no local variable is assigned yet.
ClusterEntry ==
    /\ cpc = "flatten"
    /\ revsbydate = Unbound /\ mintime = Unbound /\ pending = Unbound
    /\ rcscommits = Unbound /\ prevtime = Unbound /\ prevauth = Unbound
    /\ prevdate = Unbound /\ prevdesc = Unbound /\ prevrev = Unbound
    /\ commit = Unbound /\ files = Unbound /\ descs = Unbound
    /\ walked = <<>>

\* The gaps of the model, scaled down from the defaults 10 and 3600, and the
\* latest timestamp, in seconds after 2020/02/19 00:00:00.
SmallSep == 1
BigSep == 2
MaxTime == 3

Authors == {"", "alice", "bob"}
Descs == {"fix\n", " Fix\n", "typo\n", "Initial revision\n"}
Times == 0..MaxTime

\* The files rlog is run on: two files, and an older copy of the first one
\* kept under another repository path.
FilePalette ==
    << [rcs |-> "RCS/a.c,v", file |-> "a.c"],
       [rcs |-> "RCS/b.c,v", file |-> "b.c"],
       [rcs |-> "old/a.c,v", file |-> "a.c"] >>

\* The numbers of revisions of the files of the input, in input order.
Shapes == { <<>>, <<1>>, <<2>>, <<3>>, <<1, 1>>, <<1, 2>>, <<2, 1>>, <<1, 1, 1>> }

RECURSIVE Sum(_)
Sum(sh) == IF sh = <<>> THEN 0 ELSE Head(sh) + Sum(Tail(sh))

\* The date text rlog prints for second t of 2020/02/19, and its timestamp.
DateText(t) == "2020/02/19 00:00:" \o CharAt(Digits, t \div 10) \o CharAt(Digits, t % 10)
Midnight == strptime(DateText(0)).ts
TimeStamp(t) == Midnight + t

\* rlog lists the newest revision first: the j-th of n revisions is 1.(n-j+1).
RevId(n, j) == "1." \o CharAt(Digits, n - j + 1)

\* The revisions of the i-th file of shape sh, with attributes
\* at[k] = <<author, time, description>> for the k-th revision overall.
RevsOf(sh, at, i) ==
    LET off == Sum(SubSeq(sh, 1, i - 1))
    IN  [j \in 1..sh[i] |->
            Revision(RevId(sh[i], j), at[off + j][3], at[off + j][1],
                     DateText(at[off + j][2]), TimeStamp(at[off + j][2]))]

\* The list rlogparse returns for files pick[1], pick[2], ... of the palette.
MetaOf(sh, pick, at) ==
    [i \in 1..Len(sh) |->
        FileLog(FilePalette[pick[i]].rcs, FilePalette[pick[i]].file,
                RevId(sh[i], 1), "", RevsOf(sh, at, i))]

\* The files are given to rlog in the order of the palette.
Increasing(f) == \A i, j \in DOMAIN f : i < j => f[i] < f[j]

\* The attributes of n revisions: one author with any times and descriptions,
\* or one description with any authors and times, or one time with any
\* authors and descriptions.
Attrs(n) ==
    { at \in [1..n -> Authors \X Times \X Descs] :
        \/ \A k \in 1..n : at[k][1] = "alice"
        \/ \A k \in 1..n : at[k][3] = "fix\n"
        \/ \A k \in 1..n : at[k][2] = 0 }

InitCluster ==
    /\ MainIdle
    /\ ParserIdle
    /\ ClusterEntry
    /\ smalltimesep = SmallSep
    /\ bigtimesep = BigSep
    /\ \E sh \in Shapes :
         \E pick \in [1..Len(sh) -> 1..Len(FilePalette)] :
           /\ Increasing(pick)
           /\ \E at \in Attrs(Sum(sh)) : rcsmeta = MetaOf(sh, pick, at)

SpecCluster == InitCluster /\ [][NextCluster]_vars

\* The scenario of two revisions of a.c at T and T+5 s and one revision of b.c
\* at T+8 s, all by alice, under the default gaps of line 112; the files come
\* in either order and the descriptions are any.
DefaultSmallSep == 10
DefaultBigSep == 3600

ScenarioA(T, d) ==
    FileLog("RCS/a.c,v", "a.c", "1.2", "",
            << Revision("1.2", d[2], "alice", DateText(T + 5), TimeStamp(T + 5)),
               Revision("1.1", d[1], "alice", DateText(T), TimeStamp(T)) >>)
ScenarioB(T, d) ==
    FileLog("RCS/b.c,v", "b.c", "1.1", "",
            << Revision("1.1", d[3], "alice", DateText(T + 8), TimeStamp(T + 8)) >>)

InitScenario ==
    /\ MainIdle
    /\ ParserIdle
    /\ ClusterEntry
    /\ smalltimesep = DefaultSmallSep
    /\ bigtimesep = DefaultBigSep
    /\ \E T \in Times : \E d \in [1..3 -> Descs] :
         \/ rcsmeta = <<ScenarioA(T, d), ScenarioB(T, d)>>
         \/ rcsmeta = <<ScenarioB(T, d), ScenarioA(T, d)>>

SpecScenario == InitScenario /\ [][NextCluster]_vars

-----------------------------------------------------------------------------
(* The inputs of rlogparse *)

\* rcscluster is not part of the run.
ClusterIdle ==
    /\ cpc = "idle"
    /\ smalltimesep = Unbound /\ bigtimesep = Unbound
    /\ revsbydate = Unbound /\ mintime = Unbound /\ pending = Unbound
    /\ rcscommits = Unbound /\ prevtime = Unbound /\ prevauth = Unbound
    /\ prevdate = Unbound /\ prevdesc = Unbound /\ prevrev = Unbound
    /\ commit = Unbound /\ files = Unbound /\ descs = Unbound
    /\ walked = <<>>

MaxLines == 4

\* Metadata lines that are not `date: <date>;  author: <author>;`: no
\* semicolon after the date, no author label, no semicolon after the
\* author, and a date that is no date.
NoSemicolonLines == { "date: 2020/02/19 00:00:02" }
NoAuthorLabelLines == { "date: 2020/02/19 00:00:01;  writer: alice;" }
NoAuthorSemicolonLines == { "date: 2020/02/19 00:00:03;  author: bob" }
BadDateLines == { "date: 2020/02/30 00:00:00;  author: alice;  state: Exp;" }

\* The lines the pipe may deliver, without their line terminator.
LineTexts ==
    { kend, kblockend,
      "RCS file: RCS/a.c,v", "Working file: a.c", "head: 1.2",
      "description:", "revision 1.1", "revision 1.2\tlocked by: bob;",
      "date: 2020/02/19 00:00:00;  author: alice;  state: Exp;",
      " Fix\t it " }
    \cup NoSemicolonLines \cup NoAuthorLabelLines \cup NoAuthorSemicolonLines \cup BadDateLines

\* Every line with its terminator, and a last line without one.
LineSet == { t \o "\n" : t \in LineTexts } \cup { kend }

\* Any line may follow any line, until the pipe is closed.
ReadAny ==
    \E line \in LineSet :
        /\ nr < MaxLines
        /\ ReadLine(line)
        /\ UNCHANGED stream

InitParse ==
    /\ MainIdle
    /\ ParseEntry
    /\ ClusterIdle
    /\ stream = <<>>
    /\ truth = <<>>

NextParse == ReadAny \/ ParseReturn

SpecParse == InitParse /\ [][NextParse]_vars

MaxRecordLines == 6

\* The lines of the records of a file or two: a longer pipe of fewer lines.
RecordLines ==
    { t \o "\n" :
        t \in { kend, kblockend, "RCS file: RCS/a.c,v", "revision 1.1",
                "date: 2020/02/19 00:00:00;  author: alice;  state: Exp;", " Fix\t it " } }

ReadRecordLine ==
    \E line \in RecordLines :
        /\ nr < MaxRecordLines
        /\ ReadLine(line)
        /\ UNCHANGED stream

NextRecords == ReadRecordLine \/ ParseReturn

SpecRecords == InitParse /\ [][NextRecords]_vars

\* The depth of the pipe of the lines of a revision named as the field of
\* the description is named.
MaxCaptureLines == 5

\* The lines of a record with a description and a revision whose identifier
\* is the string desc, the value of fdesc.
CaptureLines ==
    { t \o "\n" :
        t \in { kend, kblockend, "description:", "revision desc",
                "date: 2020/02/19 00:00:00;  author: alice;  state: Exp;", " Fix\t it " } }

ReadCaptureLine ==
    \E line \in CaptureLines :
        /\ nr < MaxCaptureLines
        /\ ReadLine(line)
        /\ UNCHANGED stream

NextCapture == ReadCaptureLine \/ ParseReturn

SpecCapture == InitParse /\ [][NextCapture]_vars

-----------------------------------------------------------------------------
(* rlog output for a known history *)

MaxDescLines == 2

\* What a description line may be: text, text in whitespace, nothing, and
\* text that starts as the lines of the format do.
DescLines == { "fix", " Fix\t it ", "", "revision 9.9", "date: 1999", "description:" }

\* The descriptions of at most n lines.
DescsUpTo(n) == UNION { [1..k -> DescLines] : k \in 0..n }

\* A revision of a history, and a file of a history.
TrueRevision(num, t, author, lines) ==
    [num |-> num, t |-> t, author |-> author, lines |-> lines]
TrueFile(rcs, file, head, lines, revs) ==
    [rcs |-> rcs, file |-> file, head |-> head, lines |-> lines, revs |-> revs]

\* The histories: one file of one or two revisions with any descriptions, or
\* two files of one revision each.
Truths ==
    { << TrueFile("RCS/a.c,v", "a.c", "1.1", ol,
                  << TrueRevision("1.1", 0, "alice", l1) >>) >> :
        ol \in { <<>>, << "RCS file: x,v", " " >> }, l1 \in DescsUpTo(MaxDescLines) }
    \cup
    { << TrueFile("RCS/a.c,v", "a.c", "1.2", <<"a">>,
                  << TrueRevision("1.2", 1, "bob", l2), TrueRevision("1.1", 0, "alice", l1) >>) >> :
        l1 \in DescsUpTo(MaxDescLines), l2 \in DescsUpTo(1) }
    \cup
    { << TrueFile("RCS/a.c,v", "a.c", "1.1", <<>>, << TrueRevision("1.1", 0, "alice", l1) >>),
         TrueFile("RCS/b.c,v", "b.c", "1.1", <<"b">>, << TrueRevision("1.1", 1, "alice", l2) >>) >> :
        l1 \in DescsUpTo(1), l2 \in DescsUpTo(1) }

RECURSIVE Flat(_)
Flat(ss) == IF ss = <<>> THEN <<>> ELSE Head(ss) \o Flat(Tail(ss))

\* The lines rlog prints for a revision, for a file, and for a history, each
\* with its line terminator.
Terminated(lines) == [i \in DOMAIN lines |-> lines[i] \o "\n"]
RenderRevision(r) ==
    Terminated(<< kblockend,
                  "revision " \o r.num,
                  "date: " \o DateText(r.t) \o ";  author: " \o r.author \o ";  state: Exp;" >>
               \o r.lines)
RenderFile(f) ==
    Terminated(<< "", "RCS file: " \o f.rcs, "Working file: " \o f.file, "head: " \o f.head,
                  "branch:", "locks: strict", "description:" >> \o f.lines)
    \o Flat([j \in DOMAIN f.revs |-> RenderRevision(f.revs[j])])
    \o Terminated(<< kend >>)
Render(h) == Flat([i \in DOMAIN h |-> RenderFile(h[i])])

\* The next line of the pipe.
ReadNext ==
    /\ stream /= <<>>
    /\ ReadLine(Head(stream))
    /\ stream' = Tail(stream)

\* The pipe is at its end.
ParseReturnAtEnd ==
    /\ stream = <<>>
    /\ ParseReturn

InitRoundTrip ==
    /\ MainIdle
    /\ ParseEntry
    /\ ClusterIdle
    /\ truth \in Truths
    /\ stream = Render(truth)

NextRoundTrip == ReadNext \/ ParseReturnAtEnd

SpecRoundTrip == InitRoundTrip /\ [][NextRoundTrip]_vars

-----------------------------------------------------------------------------
(* main *)

DefaultGranularity == 600

\* float(os.getenv("GRANULARITY", "600")): the default and a value from the environment.
Granularities == {DefaultGranularity, 1}

\* Line 169: rlogparse has returned and main calls rcscluster on its result.
MainCallsCluster ==
    /\ mpc = "parsing"
    /\ ppc = "returned"
    /\ cpc = "idle"
    /\ mpc' = "clustering"
    /\ cpc' = "flatten"
    /\ smalltimesep' \in Granularities
    /\ bigtimesep' = DefaultBigSep
    /\ UNCHANGED <<pvars, rcsmeta, stdout, returncode, tty, revsbydate, mintime, pending,
                   rcscommits, prevtime, prevauth, prevdate, prevdesc, prevrev, commit, files,
                   descs, walked>>

\* Lines 170-172: main prints the commits and returns 0; os.get_terminal_size(0)
\* raises OSError when there is a commit to print and no terminal.
MainPrints ==
    /\ mpc = "clustering"
    /\ cpc = "done"
    /\ IF rcscommits /= <<>> /\ ~tty
       THEN mpc' = "crashed" /\ stdout' = stdout
       ELSE mpc' = "exited" /\ stdout' = rcscommits
    /\ UNCHANGED <<pvars, rcsmeta, cvars, returncode, tty>>

\* Lines 166 and 169: an exception of rlogparse or of rcscluster leaves main.
MainCrashes ==
    /\ mpc \in {"parsing", "clustering"}
    /\ ppc = "error" \/ cpc = "error"
    /\ mpc' = "crashed"
    /\ UNCHANGED <<pvars, rcsmeta, cvars, stdout, returncode, tty>>

\* rlog stops before it has printed everything.
RlogDies ==
    /\ ppc = "reading"
    /\ stream /= <<>>
    /\ stream' = <<>>
    /\ UNCHANGED <<ppc, locals, nr, raised, ateof, truth, nend, opened, reclines, revsince, target, rcsmeta,
                   cvars, mvars>>

\* The histories of the runs of main: two files changed together, one file
\* changed twice, and a log that names revision 1.1 twice.
MainTruths ==
    { << TrueFile("RCS/a.c,v", "a.c", "1.1", <<>>, << TrueRevision("1.1", 0, "alice", <<"fix">>) >>),
         TrueFile("RCS/b.c,v", "b.c", "1.1", <<>>, << TrueRevision("1.1", 1, "alice", <<"fix">>) >>) >>,
      << TrueFile("RCS/a.c,v", "a.c", "1.2", <<"a">>,
                  << TrueRevision("1.2", 1, "bob", <<"typo">>),
                     TrueRevision("1.1", 0, "alice", <<"Initial revision">>) >>) >>,
      << TrueFile("RCS/a.c,v", "a.c", "1.1", <<>>,
                  << TrueRevision("1.1", 1, "alice", <<"fix">>),
                     TrueRevision("1.1", 0, "alice", <<"fix">>) >>) >> }

InitMain ==
    /\ mpc = "parsing"
    /\ stdout = <<>>
    /\ returncode = None
    /\ tty \in BOOLEAN
    /\ ParseEntry
    /\ ClusterIdle
    /\ truth \in MainTruths
    /\ stream = Render(truth)

NextMain ==
    \/ ReadNext
    \/ RlogDies
    \/ ParseReturnAtEnd
    \/ MainCallsCluster
    \/ NextCluster
    \/ MainPrints
    \/ MainCrashes

SpecMain == InitMain /\ [][NextMain]_vars

-----------------------------------------------------------------------------
(* Properties of rcscluster *)

\* The (repository path, revision id) pairs of the input.
InputPairs ==
    UNION { { <<rcsmeta[i].rcs, rcsmeta[i].revs[j].key>> : j \in DOMAIN rcsmeta[i].revs }
            : i \in DOMAIN rcsmeta }

\* The revision of the input that a member (date, repository path, id, working path) is.
InputRevision(m) ==
    LET i == CHOOSE i \in DOMAIN rcsmeta : rcsmeta[i].rcs = m[2]
        j == CHOOSE j \in DOMAIN rcsmeta[i].revs : rcsmeta[i].revs[j].key = m[3]
    IN  rcsmeta[i].revs[j]

\* The places <<c, k>> of the members of the returned commits.
MemberPlaces ==
    { <<c, k>> \in (DOMAIN rcscommits) \X (1..Len(revsbydate)) :
        k <= Len(membersOf(rcscommits[c])) }
MemberAt(pl) == membersOf(rcscommits[pl[1]])[pl[2]]

\* Event e is a member of commit c; events e1, e2 are members of one returned commit.
IsMember(c, e) ==
    \E k \in DOMAIN membersOf(c) :
        membersOf(c)[k][2] = vrfileOf(e) /\ membersOf(c)[k][3] = revOf(e)
SameCommit(e1, e2) ==
    \E c \in DOMAIN rcscommits : IsMember(rcscommits[c], e1) /\ IsMember(rcscommits[c], e2)

\* The k-th event of the walk, and the serial number of the commit it went into.
Ev(k) == walked[k].ev
Serial(k) == walked[k].n

Done == cpc = "done"

\* C1 (as claimed): the members of the returned commits, taken together, hold
\* every (repository path, revision id) pair of the input exactly once.
C1_ExhaustivePartition ==
    Done =>
        /\ \A pl \in MemberPlaces : <<MemberAt(pl)[2], MemberAt(pl)[3]>> \in InputPairs
        /\ \A p \in InputPairs :
              Cardinality({ pl \in MemberPlaces :
                              <<MemberAt(pl)[2], MemberAt(pl)[3]>> = p }) = 1

\* C2 (as claimed): no working file path occurs in two members of a returned commit.
C2_NoRepeatedWorkingFile ==
    Done =>
        \A c \in DOMAIN rcscommits : \A i, j \in DOMAIN membersOf(rcscommits[c]) :
            i /= j => membersOf(rcscommits[c])[i][4] /= membersOf(rcscommits[c])[j][4]

\* C2 (amended): two members of a returned commit that have the same working
\* file path belong to different repository files.
C2_RepeatedWorkingFileIsAnotherRepositoryFile ==
    Done =>
        \A c \in DOMAIN rcscommits : \A i, j \in DOMAIN membersOf(rcscommits[c]) :
            (i /= j /\ membersOf(rcscommits[c])[i][4] = membersOf(rcscommits[c])[j][4])
                => membersOf(rcscommits[c])[i][2] /= membersOf(rcscommits[c])[j][2]

\* A returned commit holds two members with one working file path.
C2_Witness ==
    /\ Done
    /\ \E c \in DOMAIN rcscommits : \E i, j \in DOMAIN membersOf(rcscommits[c]) :
          i /= j /\ membersOf(rcscommits[c])[i][4] = membersOf(rcscommits[c])[j][4]

\* C3: every member of a returned commit was written by the author recorded on
\* the commit, and two events next to each other in the walk that have
\* different authors are never members of one commit.
C3_AuthorPurity ==
    Done =>
        /\ \A pl \in MemberPlaces :
              InputRevision(MemberAt(pl)).author = authorOf(rcscommits[pl[1]])
        /\ \A k \in 1..(Len(walked) - 1) :
              revauthOf(Ev(k)) /= revauthOf(Ev(k + 1))
                  => ~SameCommit(Ev(k), Ev(k + 1)) /\ Serial(k) /= Serial(k + 1)

\* Two events by different authors, of different files, at most the small gap
\* apart, are returned in two commits, one of which has a second member.
C3_Witness ==
    /\ Done
    /\ Len(rcscommits) = 2
    /\ \E c \in DOMAIN rcscommits : Len(membersOf(rcscommits[c])) = 2
    /\ \E k \in 1..(Len(walked) - 1) :
          /\ revauthOf(Ev(k)) /= revauthOf(Ev(k + 1))
          /\ vrfileOf(Ev(k)) /= vrfileOf(Ev(k + 1))
          /\ revtimeOf(Ev(k + 1)) - revtimeOf(Ev(k)) <= smalltimesep
          /\ \E c \in DOMAIN rcscommits : IsMember(rcscommits[c], Ev(k))
          /\ \E c \in DOMAIN rcscommits : IsMember(rcscommits[c], Ev(k + 1))

\* Events e1, e2 are by one author and of different files.
SameAuthorOtherFile(e1, e2) ==
    /\ revauthOf(e1) = revauthOf(e2)
    /\ vrfileOf(e1) /= vrfileOf(e2)
    /\ vwfileOf(e1) /= vwfileOf(e2)

\* C4 (as claimed): two events by one author, of different files, more than
\* bigtimesep apart, are never members of one commit, whatever lies between them.
C4_BigGapBetweenAnyTwo ==
    Done =>
        \A i, j \in DOMAIN walked :
            (/\ i < j
             /\ SameAuthorOtherFile(Ev(i), Ev(j))
             /\ revtimeOf(Ev(j)) - revtimeOf(Ev(i)) > bigtimesep)
                => ~SameCommit(Ev(i), Ev(j))

\* Somewhere from the i-th to the j-th event of the walk, two events next to
\* each other are more than bigtimesep apart.
BigStepBetween(i, j) ==
    \E k \in i..(j - 1) : revtimeOf(Ev(k + 1)) - revtimeOf(Ev(k)) > bigtimesep

\* C4 (amended): two events between which the walk makes a step of more than
\* bigtimesep, from one event to the next, are never members of one commit.
C4_BigStepSeparates ==
    Done =>
        \A i, j \in DOMAIN walked :
            (i < j /\ BigStepBetween(i, j))
                => ~SameCommit(Ev(i), Ev(j)) /\ Serial(i) /= Serial(j)

\* Two events next to each other, by one author, of different files, with one
\* description, more than bigtimesep apart, are returned in different commits.
C4_Witness ==
    /\ Done
    /\ \E k \in 1..(Len(walked) - 1) :
          /\ SameAuthorOtherFile(Ev(k), Ev(k + 1))
          /\ revdescOf(Ev(k)) = revdescOf(Ev(k + 1))
          /\ revtimeOf(Ev(k + 1)) - revtimeOf(Ev(k)) > bigtimesep
          /\ \E c, d \in DOMAIN rcscommits :
                c /= d /\ IsMember(rcscommits[c], Ev(k)) /\ IsMember(rcscommits[d], Ev(k + 1))

\* C5 (as claimed, for an author that is not empty): two events by one author,
\* of different files, less than smalltimesep apart, are members of one commit.
C5_SmallGapBetweenAnyTwo ==
    Done =>
        \A i, j \in DOMAIN walked :
            (/\ i < j
             /\ SameAuthorOtherFile(Ev(i), Ev(j))
             /\ revauthOf(Ev(i)) /= ""
             /\ revtimeOf(Ev(j)) - revtimeOf(Ev(i)) < smalltimesep)
                => SameCommit(Ev(i), Ev(j))

\* The repository paths of the commit of the k-th event of the walk, up to that event.
FilesBefore(k) == { vrfileOf(Ev(i)) : i \in { i \in 1..k : Serial(i) = Serial(k) } }

\* C5 (amended): of two events next to each other in the walk, by one author,
\* less than smalltimesep apart, the later goes into the commit of the earlier
\* unless that commit already holds a revision of the later event's repository
\* file; the two are then members of one returned commit if the author is not empty.
C5_SmallStepMerges ==
    \A k \in 1..(Len(walked) - 1) :
        (/\ revauthOf(Ev(k)) = revauthOf(Ev(k + 1))
         /\ revtimeOf(Ev(k + 1)) - revtimeOf(Ev(k)) < smalltimesep
         /\ vrfileOf(Ev(k + 1)) \notin FilesBefore(k))
            => /\ Serial(k) = Serial(k + 1)
               /\ (Done /\ revauthOf(Ev(k)) /= "") => SameCommit(Ev(k), Ev(k + 1))

\* Two such events with different descriptions and revision ids are members
\* of one returned commit.
C5_Witness ==
    /\ Done
    /\ \E k \in 1..(Len(walked) - 1) :
          /\ SameAuthorOtherFile(Ev(k), Ev(k + 1))
          /\ revtimeOf(Ev(k + 1)) - revtimeOf(Ev(k)) < smalltimesep
          /\ revdescOf(Ev(k)) /= revdescOf(Ev(k + 1))
          /\ revOf(Ev(k)) /= revOf(Ev(k + 1))
          /\ SameCommit(Ev(k), Ev(k + 1))

\* C6 (as claimed): in the scenario rcscluster returns one commit, with three
\* members and author alice.
C6_ScenarioOneCommit ==
    Done =>
        /\ Len(rcscommits) = 1
        /\ Len(membersOf(rcscommits[1])) = 3
        /\ authorOf(rcscommits[1]) = "alice"

\* The (repository path, revision id) pairs of the members of commit c, in order.
MemberPairs(c) == [k \in DOMAIN membersOf(c) |-> <<membersOf(c)[k][2], membersOf(c)[k][3]>>]

\* C6 (amended): in the scenario rcscluster returns two commits by alice: the
\* first revision of a.c alone, then the second revision of a.c with the
\* revision of b.c.
C6_ScenarioTwoCommits ==
    Done =>
        /\ Len(rcscommits) = 2
        /\ authorOf(rcscommits[1]) = "alice"
        /\ authorOf(rcscommits[2]) = "alice"
        /\ MemberPairs(rcscommits[1]) = << <<"RCS/a.c,v", "1.1">> >>
        /\ MemberPairs(rcscommits[2]) = << <<"RCS/a.c,v", "1.2">>, <<"RCS/b.c,v", "1.1">> >>

\* The scenario has been clustered under the default gaps: a.c at T and T+5 s,
\* b.c at T+8 s, all by alice.
C6_Witness ==
    /\ Done
    /\ smalltimesep = 10 /\ bigtimesep = 3600
    /\ Len(walked) = 3
    /\ \A k \in 1..3 : revauthOf(Ev(k)) = "alice"
    /\ vwfileOf(Ev(1)) = "a.c" /\ vwfileOf(Ev(2)) = "a.c" /\ vwfileOf(Ev(3)) = "b.c"
    /\ revtimeOf(Ev(2)) = revtimeOf(Ev(1)) + 5
    /\ revtimeOf(Ev(3)) = revtimeOf(Ev(1)) + 8

\* The events in the order the loop takes them: those processed, then those to come.
Walk == [k \in DOMAIN walked |-> Ev(k)] \o pending
Sorted == cpc \in {"loop", "done"}

\* C7 (as claimed): the loop takes the events in ascending order of timestamp,
\* events of one timestamp in their input order.
C7_TimestampIsTheOnlyKey == Sorted => Walk = SortByTime(revsbydate)

\* How often e occurs in evs.
Count(evs, e) == Cardinality({ k \in DOMAIN evs : evs[k] = e })

\* C7 (amended): the loop takes every event of the flat list once, in
\* ascending order of the whole tuple (timestamp, author, date text, repository
\* path, revision id, working path, description): by timestamp, and events of
\* one timestamp by author, then date text, and so on, each compared as a
\* string, whatever their input order.
C7_WholeTupleIsTheKey ==
    Sorted =>
        /\ Len(Walk) = Len(revsbydate)
        /\ \A k \in DOMAIN Walk : Count(Walk, Walk[k]) = Count(revsbydate, Walk[k])
        /\ \A i, j \in DOMAIN Walk :
              i < j => /\ revtimeOf(Walk[i]) <= revtimeOf(Walk[j])
                       /\ ~TupleLt(Walk[j], Walk[i])

\* Where e is in the flat list.
InputPlace(e) == CHOOSE k \in DOMAIN revsbydate : revsbydate[k] = e

\* Two events of one timestamp are taken against their input order.
C7_Witness ==
    /\ Sorted
    /\ \E i, j \in DOMAIN Walk :
          /\ i < j
          /\ revtimeOf(Walk[i]) = revtimeOf(Walk[j])
          /\ InputPlace(Walk[i]) > InputPlace(Walk[j])

\* The description as compared for de-duplication: surrounding whitespace
\* stripped, lower case.
Normalized(d) == lower(strip(d))

\* The messages of a commit with members ms, seen being the normalized
\* descriptions of the members before them.
RECURSIVE ExpectedMessages(_, _)
ExpectedMessages(ms, seen) ==
    IF ms = <<>> THEN <<>>
    ELSE LET m == Head(ms)
             d == InputRevision(m).desc
             rest == ExpectedMessages(Tail(ms), seen \cup {Normalized(d)})
         IN  IF Normalized(d) /= "initial revision" /\ Normalized(d) \notin seen
             THEN <<m[4] \o ": " \o d>> \o rest
             ELSE rest

\* C8: the messages of every commit, returned or open, are the messages
\* 'working path: description' of its members whose normalized description is
\* not 'initial revision' and is that of no earlier member of the commit, in
\* the order of the members.
C8_MessageDeduplication ==
    Sorted =>
        /\ \A c \in DOMAIN rcscommits :
              messagesOf(rcscommits[c]) = ExpectedMessages(membersOf(rcscommits[c]), {})
        /\ commit /= None => commit[1] = ExpectedMessages(commit[2], {})

\* A returned commit of three members keeps two messages: the description of
\* one member differs from that of an earlier one only in case and whitespace.
C8_Witness ==
    /\ Done
    /\ \E c \in DOMAIN rcscommits :
          LET ms == membersOf(rcscommits[c])
          IN  /\ Len(ms) = 3
              /\ Len(messagesOf(rcscommits[c])) = 2
              /\ \E i, j \in DOMAIN ms :
                    /\ i < j
                    /\ InputRevision(ms[i]).desc /= InputRevision(ms[j]).desc
                    /\ Normalized(InputRevision(ms[i]).desc) = Normalized(InputRevision(ms[j]).desc)
                    /\ Normalized(InputRevision(ms[i]).desc) /= "initial revision"

\* The first event of the walk that went into the commit event k went into,
\* and the working files of the events of that commit up to event k.
FirstOf(k) == CHOOSE i \in 1..k : Serial(i) = Serial(k) /\ \A h \in 1..(i - 1) : Serial(h) /= Serial(k)
WorkingFilesBefore(k) == { vwfileOf(Ev(i)) : i \in { i \in 1..k : Serial(i) = Serial(k) } }

\* The gap of event k, and the part of the rule that is about time and text.
Gap(k) == revtimeOf(Ev(k)) - revtimeOf(Ev(k - 1))
GapSplits(k) ==
    \/ Gap(k) > bigtimesep
    \/ /\ Gap(k) > smalltimesep
       /\ revdescOf(Ev(k)) /= revdescOf(Ev(k - 1))
       /\ revOf(Ev(k)) /= revOf(Ev(k - 1))

\* C14 (as claimed): an event after the first opens a new commit if and only
\* if its author is not the open commit's, or its working file is one of the
\* open commit's, or its gap to the event before it splits.  Stated for the
\* walks whose authors are not empty.
C14_SplitOnWorkingFile ==
    (\A i \in DOMAIN walked : revauthOf(Ev(i)) /= "") =>
        \A k \in 2..Len(walked) :
            Serial(k) /= Serial(k - 1) <=>
                \/ revauthOf(Ev(k)) /= revauthOf(Ev(FirstOf(k - 1)))
                \/ vwfileOf(Ev(k)) \in WorkingFilesBefore(k - 1)
                \/ GapSplits(k)

\* C14 (amended): an event after the first opens a new commit if and only if
\* its author is not the open commit's, or its repository file is one of
\* the open commit's, or its gap to the event before it is more than
\* bigtimesep, or more than smalltimesep with a description and a revision
\* id that both differ from those of the event before it; otherwise it goes
\* into the open commit.  The first event opens the first commit, commits
\* are numbered in the order they are opened, and the commits returned are
\* as many as the commits opened by an event whose author is not empty.
C14_SplitOnRepositoryFile ==
    /\ \A k \in 2..Len(walked) :
          /\ Serial(k) \in {Serial(k - 1), Serial(k - 1) + 1}
          /\ Serial(k) /= Serial(k - 1) <=>
                \/ revauthOf(Ev(k)) /= revauthOf(Ev(FirstOf(k - 1)))
                \/ vrfileOf(Ev(k)) \in FilesBefore(k - 1)
                \/ GapSplits(k)
    /\ (walked /= <<>> => Serial(1) = 1)
    /\ (Done => Len(rcscommits) =
                   Cardinality({ k \in DOMAIN walked : FirstOf(k) = k /\ revauthOf(Ev(k)) /= "" }))

\* The walk is over; one event was split from the one before it by a gap
\* between smalltimesep and bigtimesep alone, and another, with another
\* description after a gap within smalltimesep, went into the open commit.
C14_Witness ==
    /\ Done
    /\ \E k, h \in 2..Len(walked) :
          /\ SameAuthorOtherFile(Ev(k - 1), Ev(k))
          /\ vrfileOf(Ev(k)) \notin FilesBefore(k - 1)
          /\ Gap(k) > smalltimesep /\ Gap(k) <= bigtimesep
          /\ Serial(k) /= Serial(k - 1)
          /\ Gap(h) <= smalltimesep
          /\ revdescOf(Ev(h)) /= revdescOf(Ev(h - 1))
          /\ Serial(h) = Serial(h - 1)

\* C19: no repository file path occurs in two members of a returned commit,
\* and two events of one repository file never go into one commit, whoever
\* their authors are and however close they are in time.
C19_OneRevisionPerRepositoryFile ==
    /\ cpc \in {"loop", "done"} =>
          \A c \in DOMAIN rcscommits : \A i, j \in DOMAIN membersOf(rcscommits[c]) :
              i /= j => membersOf(rcscommits[c])[i][2] /= membersOf(rcscommits[c])[j][2]
    /\ \A k, h \in DOMAIN walked :
          (k /= h /\ vrfileOf(Ev(k)) = vrfileOf(Ev(h))) => Serial(k) /= Serial(h)

\* Two revisions of one repository file, by one author who is not the empty
\* author, with one description, next to each other in the walk and at most
\* smalltimesep apart, are returned in two commits.
C19_Witness ==
    /\ Done
    /\ \E k \in 1..(Len(walked) - 1) :
          /\ vrfileOf(Ev(k)) = vrfileOf(Ev(k + 1))
          /\ revauthOf(Ev(k)) = revauthOf(Ev(k + 1)) /\ revauthOf(Ev(k)) /= ""
          /\ revdescOf(Ev(k)) = revdescOf(Ev(k + 1))
          /\ revtimeOf(Ev(k + 1)) - revtimeOf(Ev(k)) <= smalltimesep
          /\ \E c, d \in DOMAIN rcscommits :
                c /= d /\ IsMember(rcscommits[c], Ev(k)) /\ IsMember(rcscommits[d], Ev(k + 1))

\* The member an event is recorded as, and the members of the commits cs
\* one list after the other.
AsMember(e) == <<revdateOf(e), vrfileOf(e), revOf(e), vwfileOf(e)>>
RECURSIVE AllMembers(_)
AllMembers(cs) == IF cs = <<>> THEN <<>> ELSE membersOf(Head(cs)) \o AllMembers(Tail(cs))

\* Every returned commit has a member and bears the date of its first
\* member, and the timestamps of the members, commit after commit, never
\* decrease.
RunsInOrder ==
    /\ \A c \in DOMAIN rcscommits :
          /\ membersOf(rcscommits[c]) /= <<>>
          /\ dateOf(rcscommits[c]) = membersOf(rcscommits[c])[1][1]
    /\ LET ms == AllMembers(rcscommits)
       IN  \A i \in 1..(Len(ms) - 1) : InputRevision(ms[i]).dt <= InputRevision(ms[i + 1]).dt

\* C20: the member lists of the returned commits, one after the other in
\* the order of the result, are the sorted sequence of all the events; every
\* returned commit has a member and bears the date of its first member, and
\* the timestamps of the members never decrease from one to the next.
C20_ContiguousChronologicalRuns ==
    Done =>
        /\ AllMembers(rcscommits) =
              [k \in DOMAIN revsbydate |-> AsMember(sorted(revsbydate)[k])]
        /\ RunsInOrder

\* C20 for the events whose author is not empty: the member lists of the
\* returned commits, one after the other, are the sorted sequence of those
\* events, and the rest of C20 as stated.
C20_RunsOfTheNamedAuthors ==
    Done =>
        /\ LET named == SelectSeq(sorted(revsbydate), LAMBDA e : revauthOf(e) /= "")
           IN  AllMembers(rcscommits) = [k \in DOMAIN named |-> AsMember(named[k])]
        /\ RunsInOrder

-----------------------------------------------------------------------------
(* Properties of rlogparse *)

\* The record in progress: after a terminator line nothing is in progress
\* until the next line clears the fields.
InProgress ==
    IF newfile = TRUE
    THEN FileLog(None, None, None, None, <<>>)
    ELSE FileLog(vrfile, vwfile, vhead, vdesc, vrevs)

\* A line has been read and the loop goes on.
LineRead == ppc = "reading" /\ nr' = nr + 1 /\ ppc' = "reading"

\* C9: over any line sequence, rlogparse appends exactly one FileLog per
\* terminator line read, in the order the terminator lines are read: the
\* list holds as many records as terminator lines were read, a terminator
\* line appends the record in progress to the end of the list whatever the
\* state, a capture included, and no other line changes the list.  The
\* capture does not continue into the next record: a capture is active
\* only if a line that opens one has been read since the last terminator
\* line, the line after a terminator line is added to no description, and a
\* record emitted with no such opening line has no description and no
\* revision.
C9_OneFileLogPerTerminatorInOrder ==
    /\ [](ppc \in {"reading", "returned", "error"} =>
            /\ Len(rcsmeta) = nend
            /\ (ppc = "reading" /\ newfile = FALSE /\ inblock /= None => opened))
    /\ [][ppc = "reading" =>
            /\ (nend' = nend + 1 =>
                  /\ rcsmeta' = Append(rcsmeta, InProgress)
                  /\ newfile' = TRUE
                  /\ (~opened => /\ rcsmeta'[Len(rcsmeta')].desc = None
                                 /\ rcsmeta'[Len(rcsmeta')].revs = <<>>))
            /\ (nend' = nend => rcsmeta' = rcsmeta)
            /\ (LineRead /\ newfile = TRUE /\ nend' = nend =>
                  /\ vdesc' \in {None, ""}
                  /\ \A j \in DOMAIN vrevs' : vrevs'[j].desc = "")]_vars

\* A second record has been emitted by a terminator line read while the
\* capture of the overall description was active and had taken a line.
C9_Witness ==
    /\ ppc = "reading"
    /\ newfile = TRUE
    /\ inblock = fdesc
    /\ Len(rcsmeta) = 2
    /\ nend = 2
    /\ rcsmeta[2].desc \notin {None, ""}
    /\ rcsmeta[1] /= rcsmeta[2]

\* The lines of a description, each followed by one newline.
RECURSIVE Joined(_)
Joined(lines) == IF lines = <<>> THEN "" ELSE Head(lines) \o "\n" \o Joined(Tail(lines))

\* C10: for every revision of the history rlog printed, whose description
\* is N lines of the stream, the parsed description is those N lines in
\* their order, each followed by one newline and otherwise unchanged; the
\* parser raises nothing and returns one record per file of the history.
C10_DescriptionRoundTrip ==
    ppc \in {"reading", "returned", "error"} =>
        /\ ppc /= "error"
        /\ Len(rcsmeta) <= Len(truth)
        /\ (ppc = "returned" => Len(rcsmeta) = Len(truth))
        /\ \A i \in DOMAIN rcsmeta :
             /\ Len(rcsmeta[i].revs) = Len(truth[i].revs)
             /\ \A j \in DOMAIN rcsmeta[i].revs :
                  /\ rcsmeta[i].revs[j].key = truth[i].revs[j].num
                  /\ rcsmeta[i].revs[j].desc = Joined(truth[i].revs[j].lines)

\* rlogparse has returned the record of a revision whose description is two
\* lines: one in whitespace, one that starts as a line of the format does.
C10_Witness ==
    /\ ppc = "returned"
    /\ Len(rcsmeta) = 1
    /\ Len(rcsmeta[1].revs) = 2
    /\ truth[1].revs[2].lines = << " Fix\t it ", "revision 9.9" >>
    /\ rcsmeta[1].revs[2].desc = " Fix\t it \nrevision 9.9\n"

\* A line is read in this step, and the line it is, without its terminator.
Reads == ppc = "reading" /\ nr' = nr + 1
LineJustRead == rstripnl(reclines'[Len(reclines')])

\* The revisions of the record in progress and whether a capture is active
\* when the next line is classified.
CurRevs == IF newfile = TRUE THEN <<>> ELSE vrevs
InCapture == newfile = FALSE /\ inblock /= None
Keys(revs) == { revs[i].key : i \in DOMAIN revs }
DistinctKeys(revs) == \A i, j \in DOMAIN revs : revs[i].key = revs[j].key => i = j

\* The line read in this step is a revision-metadata line read outside a capture.
ReadsMetadataLine ==
    /\ Reads
    /\ ~InCapture
    /\ startswith(LineJustRead, krevdate)

\* A revision is all that the step adds to the revisions of the record.
AddsOneRevision ==
    /\ Len(vrevs') = Len(CurRevs) + 1
    /\ SubSeq(vrevs', 1, Len(CurRevs)) = CurRevs

\* C11: a revision-metadata line read outside a capture whose pending
\* revision id is already a key of the record's revisions makes rlogparse
\* raise AssertionError, after which nothing is returned; the ids of the
\* revisions of the record in progress and of every emitted FileLog are
\* distinct, a revision is added only by a metadata line, under an id that
\* was no key of the record, and the other revisions keep their id, author
\* and date; a pending id that is no key of the record in progress is
\* accepted even when it is a key of an emitted FileLog.
C11_DuplicateRevisionIdIsFatal ==
    /\ [](ppc \in {"reading", "returned", "error"} =>
            /\ \A i \in DOMAIN rcsmeta : DistinctKeys(rcsmeta[i].revs)
            /\ DistinctKeys(CurRevs))
    /\ [][/\ (ReadsMetadataLine /\ vrevnum /= Unbound /\ HasKey(CurRevs, vrevnum) =>
                 /\ ppc' = "error"
                 /\ raised' = "AssertionError"
                 /\ rcsmeta' = rcsmeta)
           /\ (ppc = "error" => ppc' = "error")
           /\ (Reads /\ ppc' = "reading" /\ LineJustRead /= kend =>
                 \/ /\ Len(vrevs') = Len(CurRevs)
                    /\ \A j \in DOMAIN vrevs' :
                         /\ vrevs'[j].key = CurRevs[j].key
                         /\ vrevs'[j].author = CurRevs[j].author
                         /\ vrevs'[j].date = CurRevs[j].date
                 \/ /\ ReadsMetadataLine
                    /\ AddsOneRevision
                    /\ vrevs'[Len(vrevs')].key \notin Keys(CurRevs))
           /\ (ReadsMetadataLine /\ vrevnum \notin {Unbound, None} /\ ~HasKey(CurRevs, vrevnum)
               /\ (\E i \in DOMAIN rcsmeta : HasKey(rcsmeta[i].revs, vrevnum)) =>
                 /\ ppc' = "reading"
                 /\ AddsOneRevision
                 /\ vrevs'[Len(vrevs')].key = vrevnum)]_vars

\* rlogparse has raised on a second metadata line for revision 1.1 in one record.
C11_Witness ==
    /\ ppc = "error"
    /\ raised = "AssertionError"
    /\ newfile = FALSE
    /\ vrevnum = "1.1"
    /\ HasKey(vrevs, "1.1")
    /\ startswith(reclines[Len(reclines)], krevdate)

\* C12: a revision-metadata line read outside a capture that has no
\* semicolon after the date, or no author label after it, or no semicolon
\* after the author, raises AssertionError, and one whose date is no date
\* raises ValueError; the line creates no revision, the list of records is
\* not extended, and rlogparse never returns after it.
C12_MalformedMetadataLineIsFatal ==
    [][/\ (ReadsMetadataLine /\ LineJustRead \in NoSemicolonLines \cup NoAuthorLabelLines
                                              \cup NoAuthorSemicolonLines \cup BadDateLines =>
             /\ ppc' = "error"
             /\ raised' = IF LineJustRead \in BadDateLines THEN "ValueError" ELSE "AssertionError"
             /\ vrevs' = vrevs
             /\ rcsmeta' = rcsmeta)
       /\ (ppc = "error" => ppc' = "error" /\ raised' = raised)]_vars

\* rlogparse has raised on a metadata line whose date is the 30th of
\* February, read after the revision-number line of revision 1.1.
C12_Witness ==
    /\ ppc = "error"
    /\ raised = "ValueError"
    /\ vrevnum = "1.1"
    /\ newfile = FALSE
    /\ vrevs = <<>>
    /\ rstripnl(reclines[Len(reclines)]) \in BadDateLines

\* C15: a revision-metadata line read outside a capture when no
\* revision-number line has been read since the last terminator line and
\* since the last revision was created makes rlogparse raise: it creates no
\* revision and rlogparse does not go on.
C15_MetadataWithoutRevisionNumberIsFatal ==
    [][ReadsMetadataLine /\ ~revsince => ppc' = "error" /\ raised' /= None]_vars

\* C16: while a capture is active, a line that is neither the separator
\* nor the terminator, whatever it starts with, is added with a newline to
\* the captured field alone: the overall description when the capture was
\* opened by the description line, else the description of the revision the
\* date line that opened the capture created; the paths, the
\* head, the pending revision number, the target, the revisions' ids and
\* the list of records stay as they are and nothing is raised.  A separator
\* line read while no capture is active leaves the record in progress, the
\* pending revision number and the list of records as they are, and no
\* capture is active after it.
C16_CaptureBeforeStructure ==
    [][/\ (Reads /\ InCapture /\ LineJustRead \notin {kend, kblockend} =>
             /\ ppc' = "reading"
             /\ vrfile' = vrfile /\ vwfile' = vwfile /\ vhead' = vhead
             /\ vrevnum' = vrevnum /\ inblock' = inblock
             /\ rcsmeta' = rcsmeta
             /\ IF target = "description"
                THEN vdesc' = vdesc \o LineJustRead \o "\n" /\ vrevs' = vrevs
                ELSE /\ vdesc' = vdesc
                     /\ vrevs' = [vrevs EXCEPT ![Len(vrevs)].desc =
                                                 @ \o LineJustRead \o "\n"])
       /\ (Reads /\ ~InCapture /\ LineJustRead = kblockend =>
             /\ ppc' = "reading"
             /\ InProgress' = InProgress
             /\ vrevnum' = vrevnum
             /\ rcsmeta' = rcsmeta
             /\ ~InCapture')]_vars

\* The description of revision 1.1 holds a line that starts as a
\* revision-number line does, and no revision number is pending.
C16_Witness ==
    /\ ppc = "reading"
    /\ newfile = FALSE
    /\ inblock = "1.1"
    /\ vrevnum = None
    /\ Len(vrevs) = 1
    /\ vrevs[1].desc = "revision 1.2\tlocked by: bob;\n"

\* C17: a record appended to the list at a terminator line stays as it is:
\* every step of rlogparse leaves the list it had as a prefix of the list it
\* has, with every field, the revisions and their descriptions, and lines
\* read after the terminator are stored in the record in progress only.
C17_EmittedFileLogsAreFrozen ==
    [][/\ Len(rcsmeta') >= Len(rcsmeta)
       /\ SubSeq(rcsmeta', 1, Len(rcsmeta)) = rcsmeta
       /\ (Reads /\ ppc' = "reading" /\ ~IsTerminatorLine(reclines'[Len(reclines')]) =>
              rcsmeta' = rcsmeta /\ ~shared')]_vars

\* A record with a revision of empty description was emitted, and a line
\* read after it is in the description of a revision of the next record.
C17_Witness ==
    /\ ppc = "reading"
    /\ Len(rcsmeta) = 1
    /\ Len(rcsmeta[1].revs) = 1 /\ rcsmeta[1].revs[1].desc = ""
    /\ newfile = FALSE
    /\ Len(vrevs) = 1 /\ vrevs[1].key = rcsmeta[1].revs[1].key
    /\ vrevs[1].desc = " Fix\t it \n"

\* The locals of rlogparse before the first line: lines 42-45.
FreshLocals ==
    [newfile |-> TRUE, vrfile |-> Unbound, vwfile |-> Unbound, vhead |-> Unbound,
     vdesc |-> Unbound, inblock |-> Unbound, vrevs |-> Unbound, vrevnum |-> Unbound,
     rcsmeta |-> <<>>, nf |-> 0, shared |-> FALSE, raised |-> None]

\* The loop of lines 46-103 over the lines given, from the locals st, up to
\* the first exception.
RECURSIVE RunLoop(_, _)
RunLoop(st, lines) ==
    IF lines = <<>> \/ st.raised /= None THEN st
    ELSE RunLoop(LoopStep(st, rstripnl(Head(lines))), Tail(lines))

\* C18: the record rlogparse appends at a terminator line is the record
\* it makes of the lines read since the previous terminator line when those
\* lines are all it reads: nothing read before them is in it.
C18_NoStaleStateAcrossRecords ==
    [][Reads /\ ppc' = "reading" /\ Len(rcsmeta') > Len(rcsmeta) =>
         LET alone == RunLoop(FreshLocals, reclines')
         IN  /\ alone.raised = None
             /\ alone.rcsmeta = <<rcsmeta'[Len(rcsmeta')]>>]_vars

-----------------------------------------------------------------------------
(* Properties of main *)

\* rlogparse has returned and rlog had failed: it exited with a status
\* other than 0, or stopped before it had printed the whole log.
RlogFailed ==
    /\ ppc = "returned"
    /\ returncode /= 0 \/ nr < Len(Render(truth))

\* C13: when rlog has failed, main does not end normally and prints no commit.
C13_LogSourceFailureIsFatal ==
    RlogFailed => mpc /= "exited" /\ stdout = <<>>

====
